---- MODULE Spec2Model ----
(***************************************************************************)
(* Invite lifecycle of the Telegram paid-community handler.                *)
(*                                                                         *)
(* Two deployments are modelled: the queued one (server.js: creation       *)
(* endpoint + Cloud Tasks worker + join webhook) and the synchronous one   *)
(* (part_000: creation endpoint that mints inline + join webhook).  Every  *)
(* HTTP handler is a process whose steps are the stretches of code between *)
(* two awaits on the store, the issuer, the dispatcher or the notifier.    *)
(***************************************************************************)
EXTENDS Integers, Sequences, FiniteSets, Bags, TLC

(* ------------------------------ bounds --------------------------------- *)

\* requests received from outside over a run: creation requests and worker
\* calls that are not the first delivery of a queued task
MaxRequests == 2
\* membership updates received from the chat platform over a run
MaxJoinEvents == 2
\* invite links the issuer can hand out over a run
MaxLinks == 2
\* issuer calls the chat platform rejects over a run
MaxFailures == 2

\* concurrently running handler invocations
Procs == {1, 2}
\* caller-supplied transaction identifiers
TxnIds == {"T1"}
\* identifiers generated for requests without one, in generation order
GenIds == <<"txn_1">>
\* requesting users and chat-platform users
Users == {"u1"}
TgUsers == {"g1"}
JoinUsers == {"g2"}

(* --------------------------- program constants ------------------------- *)

MAX_RETRY == 10
BackoffCap == 3600
BackoffBase == 5

Null == "null"
NoLink == 0

AllIds == TxnIds \cup {GenIds[i] : i \in 1..Len(GenIds)}
Links == 1..MaxLinks
\* links a join event can carry: minted ones and one the system never minted
EventLinks == 1..(MaxLinks + 1)

ActiveStatuses == {"member", "administrator", "creator"}
EventStatuses == ActiveStatuses \cup {"left", Null}

(* ------------------------------ helpers -------------------------------- *)

\* crypto.createHash("sha256").update(s).digest("hex"): a deterministic,
\* collision-free digest whose value differs from its argument
Sha256(s) == 100 + ((7 * s + 3) % 13)

Hashes == {Sha256(l) : l \in EventLinks}

RECURSIVE Pow2(_)
Pow2(n) == IF n = 0 THEN 1 ELSE 2 * Pow2(n - 1)

Min(a, b) == IF a < b THEN a ELSE b

\* Math.min(3600, 5 * Math.pow(2, attempts))
Backoff(attempts) == Min(BackoffCap, BackoffBase * Pow2(attempts))

\* a || b on values where Null is the falsy one
OrElse(a, b) == IF a # Null THEN a ELSE b

\* String(v) of an identifier: identifiers are kept as their text, which
\* String leaves as it is, and String(null) is the text "null"
String(v) == IF v = Null THEN "null" ELSE v

(* ------------------------------- state --------------------------------- *)

VARIABLES
  variant,          \* "queued" (server.js) or "sync" (part_000)
  FIRE_JOIN_EVENT,  \* the join-tracking toggle of the process environment
  txn,              \* collection txn_invites: identifier -> document
  inv,              \* collection invite_lookup: fingerprint -> document
  queue,            \* Cloud Tasks queue: bag of [tid, delay]
  h,                \* handler invocations: proc -> locals and position
  nextLink,         \* next invite link the chat platform will mint
  nextGen,          \* index of the next generated identifier
  requests,         \* requests received from outside since Init
  joinEvents,       \* membership updates received since Init
  failures,         \* issuer calls rejected since Init
  created,          \* history: accepted creation requests per transaction
  mintCalls,        \* history: issuer calls per transaction
  minted,           \* history: issuer calls that returned a link
  doneWrites,       \* history: issued-invite writes per transaction
  lastDelay,        \* history: delay of the last retry task per transaction
  linkNotifs,       \* history: "link created" notifications per transaction
  joinNotifs,       \* history: "joined" notifications per invite link
  flips             \* history: false -> true flips of joined per transaction

vars == <<variant, FIRE_JOIN_EVENT, txn, inv, queue, h, nextLink, nextGen,
          requests, joinEvents, failures, created, mintCalls, minted,
          doneWrites, lastDelay, linkNotifs, joinNotifs, flips>>

config == <<variant, FIRE_JOIN_EVENT>>
store == <<txn, inv>>
counters == <<requests, joinEvents, failures>>
history == <<created, mintCalls, minted, doneWrites, lastDelay, linkNotifs,
             joinNotifs, flips>>

NoTxn == [exists |-> FALSE, userId |-> Null, telegramUserId |-> Null,
          joined |-> FALSE, status |-> Null, attempts |-> 0,
          inviteLink |-> NoLink, inviteHash |-> NoLink, lastError |-> Null]

NoInv == [exists |-> FALSE, userId |-> Null, telegramUserId |-> Null,
          transactionId |-> Null, inviteLink |-> NoLink]

\* the JSON object of a response; a key the object lacks holds Null / NoLink
NoJson == [ok |-> FALSE, status |-> Null, transactionId |-> Null,
           inviteLink |-> NoLink]

Idle == [kind |-> "none", pc |-> "idle", tid |-> Null, userId |-> Null,
         tg |-> Null, attempts |-> 0, link |-> NoLink, delay |-> 0,
         fire |-> FALSE, final |-> Null, outcome |-> Null, body |-> Null,
         delivered |-> Null, json |-> NoJson, sentTelegramUserId |-> Null]

\* the state of a freshly deployed service: empty collections, empty queue
Fresh ==
  /\ txn = [t \in AllIds |-> NoTxn]
  /\ inv = [k \in Hashes |-> NoInv]
  /\ queue = EmptyBag
  /\ h = [p \in Procs |-> Idle]
  /\ nextLink = 1
  /\ nextGen = 1
  /\ requests = 0
  /\ joinEvents = 0
  /\ failures = 0
  /\ created = [t \in AllIds |-> 0]
  /\ mintCalls = [t \in AllIds |-> 0]
  /\ minted = [t \in AllIds |-> 0]
  /\ doneWrites = [t \in AllIds |-> 0]
  /\ lastDelay = [t \in AllIds |-> 0]
  /\ linkNotifs = [t \in AllIds |-> 0]
  /\ joinNotifs = [l \in EventLinks |-> 0]
  /\ flips = [t \in AllIds |-> 0]

InitFresh ==
  /\ variant \in {"queued", "sync"}
  /\ FIRE_JOIN_EVENT \in {"true", "false"}
  /\ Fresh

\* A later moment of the queued service: one transaction was created and
\* the issuer then rejected it `attempts` times in a row, one worker call
\* after the other (CreateSet, CreateEnqueue, then `attempts` rounds of
\* Deliver, WorkerGet, WorkerMarkProcessing, WorkerMint, WorkerRevert,
\* WorkerEnqueue).  The retry task of the last rejection waits in the queue.
Retried(t, userId, attempts) ==
  /\ txn = [x \in AllIds |->
              IF x = t
                THEN [NoTxn EXCEPT !.exists = TRUE, !.userId = userId,
                                   !.status = "QUEUED", !.attempts = attempts,
                                   !.lastError = "issuer error"]
                ELSE NoTxn]
  /\ inv = [k \in Hashes |-> NoInv]
  /\ queue = SetToBag({[tid |-> t, delay |-> Backoff(attempts)]})
  /\ h = [p \in Procs |-> Idle]
  /\ nextLink = 1
  /\ nextGen = 1
  /\ requests = 1
  /\ joinEvents = 0
  /\ failures = 0
  /\ created = [x \in AllIds |-> IF x = t THEN 1 ELSE 0]
  /\ mintCalls = [x \in AllIds |-> IF x = t THEN attempts ELSE 0]
  /\ minted = [x \in AllIds |-> 0]
  /\ doneWrites = [x \in AllIds |-> 0]
  /\ lastDelay = [x \in AllIds |-> IF x = t THEN Backoff(attempts) ELSE 0]
  /\ linkNotifs = [x \in AllIds |-> 0]
  /\ joinNotifs = [l \in EventLinks |-> 0]
  /\ flips = [x \in AllIds |-> 0]

\* the number of rejections after which the retried service is picked up
NearCeiling == MAX_RETRY - 1

InitRetried ==
  /\ variant = "queued"
  /\ FIRE_JOIN_EVENT \in {"true", "false"}
  /\ \E t \in TxnIds, userId \in Users : Retried(t, userId, NearCeiling)

\* Exploration starts at a fresh service or at one whose transaction is one
\* rejection away from the attempt ceiling; `failures` and `requests` count
\* what the exploration itself adds.
Init == InitFresh \/ InitRetried

(* --------------------------- shared plumbing --------------------------- *)

\* Invocations are anonymous: a new request takes the first free slot.
Free(p) == h[p].pc = "idle" /\ \A q \in Procs : q < p => h[q].pc # "idle"

\* a request from outside arrives while the run's budget lasts
Arrive ==
  /\ requests < MaxRequests
  /\ requests' = requests + 1

\* a membership update arrives while the run's budget lasts
ArriveJoin ==
  /\ joinEvents < MaxJoinEvents
  /\ joinEvents' = joinEvents + 1

\* res.send / res.json / res.sendStatus of invocation `me`: the response is
\* on the wire, the handler has nothing left to do
Sent(me, kind, outcome, body) ==
  [me EXCEPT !.kind = kind, !.pc = "sent", !.outcome = outcome, !.body = body]

Respond(p, kind, outcome, body) ==
  h' = [h EXCEPT ![p] = Sent(h[p], kind, outcome, body)]

\* what fireWebEngage returned to the handler
Returned(delivered) == IF delivered THEN "true" ELSE "false"

\* the response that follows `await fireWebEngage(...)`
RespondAfterNotify(p, delivered, kind, outcome, body) ==
  h' = [h EXCEPT ![p] = [Sent(h[p], kind, outcome, body)
                           EXCEPT !.delivered = Returned(delivered)]]

\* the connection closes and the invocation is gone
Finish(p) ==
  /\ h[p].pc = "sent"
  /\ h' = [h EXCEPT ![p] = Idle]
  /\ UNCHANGED <<config, store, queue, nextLink, nextGen, counters, history>>

\* A committed write to transaction document t makes the store abort every
\* read-write transaction that has read t and not yet committed; Firestore
\* then runs that transaction's update function again.  The locals the
\* function assigned outside itself (fire, finalTelegramUserId) survive.
Contend(hh, t) ==
  [q \in Procs |->
     IF hh[q].kind = "webhook" /\ hh[q].pc = "tx_commit" /\ hh[q].tid = t
       THEN [hh[q] EXCEPT !.pc = "tx_run"]
       ELSE hh[q]]

\* tasksClient.createTask with the task's schedule delay
enqueueInviteTask(transactionId, delaySeconds) ==
  queue' = queue (+) SetToBag({[tid |-> transactionId, delay |-> delaySeconds]})

\* the correlation document written at fingerprint(inviteLink)
InvDoc(p) ==
  [exists |-> TRUE, userId |-> h[p].userId, telegramUserId |-> h[p].tg,
   transactionId |-> h[p].tid, inviteLink |-> h[p].link]

(* ------------------------ POST /create-invite -------------------------- *)

BlankIds == {Null, "  "}

\* The identifier policy of the handler
TransactionId(reqTid) ==
  IF reqTid \notin BlankIds THEN reqTid ELSE GenIds[nextGen]

\* A request the handler turns away before any effect: 401 or 400
Rejected(keyOk, userId) == ~keyOk \/ userId = Null

\* Authentication and validation: res.sendStatus(401) / res.sendStatus(400)
CreateReject(p, keyOk, userId) ==
  /\ Free(p)
  /\ Rejected(keyOk, userId)
  /\ Arrive
  /\ IF ~keyOk
       THEN Respond(p, "create", "unauthorized", "401")
       ELSE Respond(p, "create", "invalid", "400")
  /\ UNCHANGED <<config, store, queue, nextLink, nextGen, joinEvents, failures,
                 history>>

\* the locals of an accepted creation request
CreateLocals(userId, tgUser, reqTid) ==
  [Idle EXCEPT !.kind = "create", !.tid = TransactionId(reqTid),
               !.userId = userId, !.tg = OrElse(tgUser, Null)]

\* an accepted request consumes a generated identifier when it brought none
Accept(reqTid) ==
  /\ Arrive
  /\ reqTid \in BlankIds => nextGen <= Len(GenIds)
  /\ nextGen' = IF reqTid \in BlankIds THEN nextGen + 1 ELSE nextGen

\* the document written by the queued deployment's creation handler
QueuedDoc(me) ==
  [NoTxn EXCEPT !.exists = TRUE, !.userId = me.userId,
                !.telegramUserId = me.tg, !.joined = FALSE,
                !.status = "QUEUED", !.attempts = 0]

\* queued: the accepted request up to and including
\* db.collection(COL_TXN).doc(transactionId).set({...})
CreateSet(p, userId, tgUser, reqTid) ==
  /\ variant = "queued"
  /\ Free(p)
  /\ Accept(reqTid)
  /\ LET me == [CreateLocals(userId, tgUser, reqTid) EXCEPT !.pc = "enqueue"]
     IN /\ txn' = [txn EXCEPT ![me.tid] = QueuedDoc(me)]
        /\ h' = [Contend(h, me.tid) EXCEPT ![p] = me]
        /\ created' = [created EXCEPT ![me.tid] = @ + 1]
  /\ UNCHANGED <<config, inv, queue, nextLink, joinEvents, failures, mintCalls,
                 minted, doneWrites, lastDelay, linkNotifs, joinNotifs, flips>>

\* queued: enqueueInviteTask(transactionId); res.json({ok, status: "queued"})
CreateEnqueue(p) ==
  /\ h[p].kind = "create" /\ h[p].pc = "enqueue"
  /\ enqueueInviteTask(h[p].tid, 0)
  /\ h' = [h EXCEPT ![p] =
             [Sent(h[p], "create", "queued", "200")
                EXCEPT !.json = [NoJson EXCEPT !.ok = TRUE,
                                               !.status = "queued"]]]
  /\ UNCHANGED <<config, store, nextLink, nextGen, counters, history>>

\* synchronous: the accepted request up to and including
\* createTelegramLink(transactionId); a failure is caught -> 500
SyncMint(p, userId, tgUser, reqTid, ok) ==
  /\ variant = "sync"
  /\ Free(p)
  /\ Accept(reqTid)
  /\ LET me == CreateLocals(userId, tgUser, reqTid)
     IN /\ created' = [created EXCEPT ![me.tid] = @ + 1]
        /\ mintCalls' = [mintCalls EXCEPT ![me.tid] = @ + 1]
        /\ minted' = [minted EXCEPT ![me.tid] = IF ok THEN @ + 1 ELSE @]
        /\ IF ok
             THEN /\ nextLink <= MaxLinks
                  /\ h' = [h EXCEPT ![p] = [me EXCEPT !.pc = "commit",
                                                      !.link = nextLink]]
                  /\ nextLink' = nextLink + 1
                  /\ UNCHANGED failures
             ELSE /\ failures' = failures + 1
                  /\ h' = [h EXCEPT ![p] = Sent(me, "create", "error", "500")]
                  /\ UNCHANGED nextLink
  /\ UNCHANGED <<config, store, queue, joinEvents, doneWrites, lastDelay,
                 linkNotifs, joinNotifs, flips>>

\* the document written by the synchronous deployment's creation handler
SyncDoc(p) ==
  [NoTxn EXCEPT !.exists = TRUE, !.userId = h[p].userId,
                !.telegramUserId = h[p].tg, !.joined = FALSE,
                !.inviteLink = h[p].link, !.inviteHash = Sha256(h[p].link)]

\* synchronous: batch.set(txn), batch.set(invite), batch.commit()
SyncCommit(p) ==
  /\ h[p].kind = "create" /\ h[p].pc = "commit"
  /\ txn' = [txn EXCEPT ![h[p].tid] = SyncDoc(p)]
  /\ inv' = [inv EXCEPT ![Sha256(h[p].link)] = InvDoc(p)]
  /\ h' = [Contend(h, h[p].tid) EXCEPT ![p].pc = "notify"]
  /\ doneWrites' = [doneWrites EXCEPT ![h[p].tid] = @ + 1]
  /\ UNCHANGED <<config, queue, nextLink, nextGen, counters, created, mintCalls,
                 minted,
                 lastDelay, linkNotifs, joinNotifs, flips>>

\* synchronous: fireWebEngage("..._link_created"); res.json({ok, inviteLink})
SyncNotify(p, delivered) ==
  /\ h[p].kind = "create" /\ h[p].pc = "notify"
  /\ linkNotifs' = [linkNotifs EXCEPT ![h[p].tid] = @ + 1]
  /\ h' = [h EXCEPT ![p] =
             [Sent(h[p], "create", "created", "200")
                EXCEPT !.delivered = Returned(delivered),
                       !.json = [NoJson EXCEPT !.ok = TRUE,
                                               !.inviteLink = h[p].link]]]
  /\ UNCHANGED <<config, store, queue, nextLink, nextGen, counters, created, mintCalls,
                 minted,
                 doneWrites, lastDelay, joinNotifs, flips>>

(* --------------------- POST /create-invite-worker ---------------------- *)

\* The dispatcher hands a queued task to the worker endpoint.
Deliver(p, task) ==
  /\ variant = "queued"
  /\ Free(p)
  /\ BagIn(task, queue)
  /\ queue' = queue (-) SetToBag({task})
  /\ h' = [h EXCEPT ![p] = [Idle EXCEPT !.kind = "worker", !.pc = "get",
                                        !.tid = task.tid]]
  /\ UNCHANGED <<config, store, nextLink, nextGen, counters, history>>

\* The endpoint is called again for an identifier it was already called for,
\* or with a stale or empty body: the dispatcher delivers at least once.
Redeliver(p, t) ==
  /\ variant = "queued"
  /\ Free(p)
  /\ Arrive
  /\ IF t = Null
       THEN Respond(p, "worker", "no_id", "ok")
       ELSE h' = [h EXCEPT ![p] = [Idle EXCEPT !.kind = "worker", !.pc = "get",
                                               !.tid = t]]
  /\ UNCHANGED <<config, store, queue, nextLink, nextGen, joinEvents, failures,
                 history>>

\* WorkerGet as it would be without `if (txnData.status === "DONE")`
WorkerGet_NoDoneCheck(p) ==
  /\ h[p].kind = "worker" /\ h[p].pc = "get"
  /\ LET txnData == txn[h[p].tid]
         attempts == txnData.attempts + 1
     IN IF ~txnData.exists
          THEN Respond(p, "worker", "not_found", "ok")
        ELSE h' = [h EXCEPT ![p].pc = IF attempts > MAX_RETRY
                                        THEN "mark_failed"
                                        ELSE "mark_processing",
                            ![p].attempts = attempts,
                            ![p].userId = txnData.userId,
                            ![p].tg = OrElse(txnData.telegramUserId, Null)]
  /\ UNCHANGED <<config, store, queue, nextLink, nextGen, counters, history>>

\* txnRef.get() and the checks on the snapshot, up to the next write
WorkerGet(p) ==
  /\ h[p].kind = "worker" /\ h[p].pc = "get"
  /\ LET txnData == txn[h[p].tid]
         attempts == txnData.attempts + 1
     IN IF ~txnData.exists
          THEN Respond(p, "worker", "not_found", "ok")
        ELSE IF txnData.status = "DONE"
          THEN Respond(p, "worker", "already_done", "ok")
        ELSE h' = [h EXCEPT ![p].pc = IF attempts > MAX_RETRY
                                        THEN "mark_failed"
                                        ELSE "mark_processing",
                            ![p].attempts = attempts,
                            ![p].userId = txnData.userId,
                            ![p].tg = OrElse(txnData.telegramUserId, Null)]
  /\ UNCHANGED <<config, store, queue, nextLink, nextGen, counters, history>>

\* txnRef.update({status: "FAILED", lastError}); res.send("failed")
WorkerMarkFailed(p) ==
  /\ h[p].kind = "worker" /\ h[p].pc = "mark_failed"
  /\ txn' = [txn EXCEPT ![h[p].tid].status = "FAILED",
                        ![h[p].tid].lastError = "Max retries exceeded"]
  /\ h' = [Contend(h, h[p].tid) EXCEPT
             ![p] = Sent(h[p], "worker", "failed", "failed")]
  /\ UNCHANGED <<config, inv, queue, nextLink, nextGen, counters, history>>

\* txnRef.update({status: "PROCESSING", attempts})
WorkerMarkProcessing(p) ==
  /\ h[p].kind = "worker" /\ h[p].pc = "mark_processing"
  /\ txn' = [txn EXCEPT ![h[p].tid].status = "PROCESSING",
                        ![h[p].tid].attempts = h[p].attempts]
  /\ h' = [Contend(h, h[p].tid) EXCEPT ![p].pc = "mint"]
  /\ UNCHANGED <<config, inv, queue, nextLink, nextGen, counters, history>>

\* the pacing sleep, then createTelegramLink(transactionId)
WorkerMint(p, ok) ==
  /\ h[p].kind = "worker" /\ h[p].pc = "mint"
  /\ mintCalls' = [mintCalls EXCEPT ![h[p].tid] = @ + 1]
  /\ minted' = [minted EXCEPT ![h[p].tid] = IF ok THEN @ + 1 ELSE @]
  /\ IF ok
       THEN /\ nextLink <= MaxLinks
            /\ h' = [h EXCEPT ![p].pc = "write_inv", ![p].link = nextLink]
            /\ nextLink' = nextLink + 1
            /\ UNCHANGED failures
       ELSE /\ h' = [h EXCEPT ![p].pc = "revert",
                              ![p].delay = Backoff(h[p].attempts)]
            /\ failures' = failures + 1
            /\ UNCHANGED nextLink
  /\ UNCHANGED <<config, store, queue, nextGen, requests, joinEvents, created,
                 doneWrites, lastDelay, linkNotifs, joinNotifs, flips>>

\* WorkerRevert as it would be if the handler answered right after the
\* status update, without enqueueing the retry
WorkerRevert_NoEnqueue(p) ==
  /\ h[p].kind = "worker" /\ h[p].pc = "revert"
  /\ txn' = [txn EXCEPT ![h[p].tid].status = "QUEUED",
                        ![h[p].tid].lastError = "issuer error"]
  /\ h' = [Contend(h, h[p].tid) EXCEPT
             ![p] = Sent(h[p], "worker", "retry_scheduled", "retry_scheduled")]
  /\ UNCHANGED <<config, inv, queue, nextLink, nextGen, counters, history>>

\* issuer failed: txnRef.update({status: "QUEUED", lastError: err.message})
WorkerRevert(p) ==
  /\ h[p].kind = "worker" /\ h[p].pc = "revert"
  /\ txn' = [txn EXCEPT ![h[p].tid].status = "QUEUED",
                        ![h[p].tid].lastError = "issuer error"]
  /\ h' = [Contend(h, h[p].tid) EXCEPT ![p].pc = "enqueue"]
  /\ UNCHANGED <<config, inv, queue, nextLink, nextGen, counters, history>>

\* WorkerEnqueue as it would be if the delay were not passed on
WorkerEnqueue_NoDelay(p) ==
  /\ h[p].kind = "worker" /\ h[p].pc = "enqueue"
  /\ enqueueInviteTask(h[p].tid, 0)
  /\ lastDelay' = [lastDelay EXCEPT ![h[p].tid] = 0]
  /\ Respond(p, "worker", "retry_scheduled", "retry_scheduled")
  /\ UNCHANGED <<config, store, nextLink, nextGen, counters, created, mintCalls,
                 minted, doneWrites, linkNotifs, joinNotifs, flips>>

\* enqueueInviteTask(transactionId, delay); res.send("retry_scheduled")
WorkerEnqueue(p) ==
  /\ h[p].kind = "worker" /\ h[p].pc = "enqueue"
  /\ enqueueInviteTask(h[p].tid, h[p].delay)
  /\ lastDelay' = [lastDelay EXCEPT ![h[p].tid] = h[p].delay]
  /\ Respond(p, "worker", "retry_scheduled", "retry_scheduled")
  /\ UNCHANGED <<config, store, nextLink, nextGen, counters, created, mintCalls,
                 minted, doneWrites,
                 linkNotifs, joinNotifs, flips>>

\* issuer succeeded: db.collection(COL_INV).doc(inviteHash).set({...})
WorkerWriteInv(p) ==
  /\ h[p].kind = "worker" /\ h[p].pc = "write_inv"
  /\ inv' = [inv EXCEPT ![Sha256(h[p].link)] = InvDoc(p)]
  /\ h' = [h EXCEPT ![p].pc = "write_done"]
  /\ UNCHANGED <<config, txn, queue, nextLink, nextGen, counters, history>>

\* WorkerWriteDone as it would be if it stored the invite link itself where
\* the fingerprint belongs
WorkerWriteDone_RawHash(p) ==
  /\ h[p].kind = "worker" /\ h[p].pc = "write_done"
  /\ txn' = [txn EXCEPT ![h[p].tid].inviteHash = h[p].link,
                        ![h[p].tid].inviteLink = h[p].link,
                        ![h[p].tid].status = "DONE"]
  /\ h' = [Contend(h, h[p].tid) EXCEPT ![p].pc = "notify"]
  /\ doneWrites' = [doneWrites EXCEPT ![h[p].tid] = @ + 1]
  /\ UNCHANGED <<config, inv, queue, nextLink, nextGen, counters, created,
                 mintCalls, minted, lastDelay, linkNotifs, joinNotifs, flips>>

\* txnRef.update({inviteHash, inviteLink, status: "DONE"})
WorkerWriteDone(p) ==
  /\ h[p].kind = "worker" /\ h[p].pc = "write_done"
  /\ txn' = [txn EXCEPT ![h[p].tid].inviteHash = Sha256(h[p].link),
                        ![h[p].tid].inviteLink = h[p].link,
                        ![h[p].tid].status = "DONE"]
  /\ h' = [Contend(h, h[p].tid) EXCEPT ![p].pc = "notify"]
  /\ doneWrites' = [doneWrites EXCEPT ![h[p].tid] = @ + 1]
  /\ UNCHANGED <<config, inv, queue, nextLink, nextGen, counters, created,
                 mintCalls, minted, lastDelay, linkNotifs, joinNotifs, flips>>

\* WorkerNotify as it would be if a lost notification were treated like an
\* issuer failure: status back to QUEUED and a retry task
WorkerNotify_RevertOnFailure(p, delivered) ==
  /\ h[p].kind = "worker" /\ h[p].pc = "notify"
  /\ linkNotifs' = [linkNotifs EXCEPT ![h[p].tid] = @ + 1]
  /\ RespondAfterNotify(p, delivered, "worker", "done", "ok")
  /\ IF delivered
       THEN UNCHANGED <<store, queue>>
       ELSE /\ txn' = [txn EXCEPT ![h[p].tid].status = "QUEUED"]
            /\ enqueueInviteTask(h[p].tid, 0)
            /\ UNCHANGED inv
  /\ UNCHANGED <<config, nextLink, nextGen, counters, created, mintCalls,
                 minted, doneWrites, lastDelay, joinNotifs, flips>>

\* fireWebEngage("..._link_created") returns true or false; res.send("ok")
WorkerNotify(p, delivered) ==
  /\ h[p].kind = "worker" /\ h[p].pc = "notify"
  /\ linkNotifs' = [linkNotifs EXCEPT ![h[p].tid] = @ + 1]
  /\ RespondAfterNotify(p, delivered, "worker", "done", "ok")
  /\ UNCHANGED <<config, store, queue, nextLink, nextGen, counters, created, mintCalls,
                 minted,
                 doneWrites, lastDelay, joinNotifs, flips>>

(* ----------------------- POST /telegram-webhook ------------------------ *)

\* a membership update with chat_member / my_chat_member, as the chat
\* platform posts it
Update(link, status, user) ==
  [hasCm |-> TRUE, link |-> link, status |-> status, user |-> user]

\* The updates the endpoint receives: every join (any link, any active
\* status), and for one link the updates that lack a part or report
\* another status; an update without chat_member carries nothing else.
Events ==
  {Update(l, st, u) : l \in EventLinks, st \in ActiveStatuses, u \in JoinUsers}
    \cup {Update(1, st, u) : st \in EventStatuses \ ActiveStatuses, u \in JoinUsers}
    \cup {Update(1, st, Null) : st \in ActiveStatuses}
    \cup {Update(NoLink, st, u) : st \in ActiveStatuses, u \in JoinUsers}
    \cup {[hasCm |-> FALSE, link |-> NoLink, status |-> Null, user |-> Null]}

\* Ignorable as it would be without the check of the new membership status
Ignorable_NoStatusCheck(e) ==
  \/ FIRE_JOIN_EVENT # "true"
  \/ ~e.hasCm
  \/ e.link = NoLink
  \/ e.user = Null

\* the event is dropped before any store access
Ignorable(e) ==
  \/ FIRE_JOIN_EVENT # "true"
  \/ ~e.hasCm
  \/ e.link = NoLink
  \/ e.user = Null
  \/ e.status \notin ActiveStatuses

\* the feature toggle and the validation of the event: res.send("ignored")
WebhookIgnore(p, e) ==
  /\ Free(p)
  /\ Ignorable(e)
  /\ ArriveJoin
  /\ Respond(p, "webhook", "ignored", "ignored")
  /\ UNCHANGED <<config, store, queue, nextLink, nextGen, requests, failures,
                 history>>

\* a valid join event up to and including inviteRef.get() at the
\* fingerprint of the event's invite link
WebhookGet(p, e) ==
  /\ Free(p)
  /\ ~Ignorable(e)
  /\ ArriveJoin
  /\ LET inviteSnap == inv[Sha256(e.link)]
         me == [Idle EXCEPT !.kind = "webhook", !.link = e.link, !.tg = e.user]
     IN IF ~inviteSnap.exists
          THEN h' = [h EXCEPT ![p] = Sent(me, "webhook", "not_found", "not_found")]
          ELSE h' = [h EXCEPT ![p] =
                       [me EXCEPT !.pc = "tx_run",
                                  !.tid = inviteSnap.transactionId,
                                  !.userId = inviteSnap.userId]]
  /\ UNCHANGED <<config, store, queue, nextLink, nextGen, requests, failures,
                 history>>


\* WebhookTxRun as it would be if the user of the join event were preferred
\* to the identifier stored at creation
WebhookTxRun_PreferEvent(p) ==
  /\ h[p].kind = "webhook" /\ h[p].pc = "tx_run"
  /\ LET txnData == txn[h[p].tid]
     IN IF txnData.exists /\ ~txnData.joined
          THEN h' = [h EXCEPT ![p].pc = "tx_commit",
                              ![p].fire = TRUE,
                              ![p].final = OrElse(h[p].tg, txnData.telegramUserId)]
        ELSE IF h[p].fire
          THEN h' = [h EXCEPT ![p].pc = "notify"]
        ELSE Respond(p, "webhook", "already_joined", "ok")
  /\ UNCHANGED <<config, store, queue, nextLink, nextGen, counters, history>>

\* One run of the update function passed to db.runTransaction: t.get(txnRef)
\* and, when joined is false, the buffered updates plus the assignments to
\* finalTelegramUserId and fire.  A run that buffers no write commits at
\* once; the handler then goes on to `if (fire)`.
WebhookTxRun(p) ==
  /\ h[p].kind = "webhook" /\ h[p].pc = "tx_run"
  /\ LET txnData == txn[h[p].tid]
     IN IF txnData.exists /\ ~txnData.joined
          THEN h' = [h EXCEPT ![p].pc = "tx_commit",
                              ![p].fire = TRUE,
                              ![p].final = OrElse(txnData.telegramUserId, h[p].tg)]
        ELSE IF h[p].fire
          THEN h' = [h EXCEPT ![p].pc = "notify"]
        ELSE Respond(p, "webhook", "already_joined", "ok")
  /\ UNCHANGED <<config, store, queue, nextLink, nextGen, counters, history>>

\* Commit of the buffered updates: t.update(txnRef, {joined: true, ...}) and
\* t.update(inviteRef, {telegramUserId})
WebhookTxCommit(p) ==
  /\ h[p].kind = "webhook" /\ h[p].pc = "tx_commit"
  /\ txn' = [txn EXCEPT ![h[p].tid].joined = TRUE,
                        ![h[p].tid].telegramUserId = h[p].final]
  /\ inv' = [inv EXCEPT ![Sha256(h[p].link)].telegramUserId = h[p].final]
  /\ h' = [Contend(h, h[p].tid) EXCEPT ![p].pc = "notify"]
  /\ flips' = [flips EXCEPT ![h[p].tid] = @ + 1]
  /\ UNCHANGED <<config, queue, nextLink, nextGen, counters, created, mintCalls,
                 minted,
                 doneWrites, lastDelay, linkNotifs, joinNotifs>>

\* if (fire) fireWebEngage("..._joined", {..., telegramUserId:
\* String(finalTelegramUserId)}), true or false; res.send("ok")
WebhookNotify(p, delivered) ==
  /\ h[p].kind = "webhook" /\ h[p].pc = "notify"
  /\ joinNotifs' = [joinNotifs EXCEPT ![h[p].link] = @ + 1]
  /\ h' = [h EXCEPT ![p] =
             [Sent(h[p], "webhook", "joined", "ok")
                EXCEPT !.delivered = Returned(delivered),
                       !.sentTelegramUserId = String(h[p].final)]]
  /\ UNCHANGED <<config, store, queue, nextLink, nextGen, counters, created, mintCalls,
                 minted,
                 doneWrites, lastDelay, linkNotifs, flips>>

(* --------------------------- specification ----------------------------- *)

\* no response is waiting to leave
Quiet == \A q \in Procs : h[q].pc # "sent"

\* Sending a response and ending the invocation touch nothing but the
\* invocation's own slot, so no other step is interleaved between the two.
Next ==
  \/ \E p \in Procs : Finish(p)
  \/ \E p \in Procs, keyOk \in BOOLEAN, userId \in Users \cup {Null} :
       Quiet /\ CreateReject(p, keyOk, userId)
  \/ \E p \in Procs, userId \in Users, tgUser \in TgUsers \cup {Null},
        reqTid \in TxnIds \cup BlankIds :
       Quiet /\ CreateSet(p, userId, tgUser, reqTid)
  \/ \E p \in Procs : Quiet /\ CreateEnqueue(p)
  \/ \E p \in Procs, userId \in Users, tgUser \in TgUsers \cup {Null},
        reqTid \in TxnIds \cup BlankIds, ok \in BOOLEAN :
       /\ Quiet
       /\ ok \/ failures < MaxFailures
       /\ SyncMint(p, userId, tgUser, reqTid, ok)
  \/ \E p \in Procs : Quiet /\ SyncCommit(p)
  \/ \E p \in Procs, delivered \in BOOLEAN : Quiet /\ SyncNotify(p, delivered)
  \/ \E p \in Procs, task \in BagToSet(queue) : Quiet /\ Deliver(p, task)
  \/ \E p \in Procs, t \in AllIds \cup {Null} : Quiet /\ Redeliver(p, t)
  \/ \E p \in Procs : Quiet /\ WorkerGet(p)
  \/ \E p \in Procs : Quiet /\ WorkerMarkFailed(p)
  \/ \E p \in Procs : Quiet /\ WorkerMarkProcessing(p)
  \/ \E p \in Procs, ok \in BOOLEAN :
       /\ Quiet
       /\ ok \/ failures < MaxFailures
       /\ WorkerMint(p, ok)
  \/ \E p \in Procs : Quiet /\ WorkerRevert(p)
  \/ \E p \in Procs : Quiet /\ WorkerEnqueue(p)
  \/ \E p \in Procs : Quiet /\ WorkerWriteInv(p)
  \/ \E p \in Procs : Quiet /\ WorkerWriteDone(p)
  \/ \E p \in Procs, delivered \in BOOLEAN : Quiet /\ WorkerNotify(p, delivered)
  \/ \E p \in Procs, e \in Events : Quiet /\ WebhookIgnore(p, e)
  \/ \E p \in Procs, e \in Events : Quiet /\ WebhookGet(p, e)
  \/ \E p \in Procs : Quiet /\ WebhookTxRun(p)
  \/ \E p \in Procs : Quiet /\ WebhookTxCommit(p)
  \/ \E p \in Procs, delivered \in BOOLEAN : Quiet /\ WebhookNotify(p, delivered)

Spec == Init /\ [][Next]_vars

(* ------------------ the queued deployment, run to the end --------------- *)

\* the queued deployment right after its start, or with one transaction
\* close to the attempt ceiling
InitLive ==
  /\ variant = "queued"
  /\ FIRE_JOIN_EVENT = "true"
  /\ \/ Fresh
     \/ \E t \in TxnIds, userId \in Users : Retried(t, userId, NearCeiling)

\* invocation p resumes from an await on the store, the dispatcher or the
\* notifier that returned
AwaitStep(p) ==
  \/ Quiet /\ CreateEnqueue(p)
  \/ Quiet /\ WorkerGet(p)
  \/ Quiet /\ WorkerMarkFailed(p)
  \/ Quiet /\ WorkerMarkProcessing(p)
  \/ Quiet /\ WorkerRevert(p)
  \/ Quiet /\ WorkerEnqueue(p)
  \/ Quiet /\ WorkerWriteInv(p)
  \/ Quiet /\ WorkerWriteDone(p)
  \/ \E delivered \in BOOLEAN : Quiet /\ WorkerNotify(p, delivered)

\* a step of handler invocation p
HandlerStep(p) == Finish(p) \/ AwaitStep(p)

\* createTelegramLink returns or throws: the platform rejects a call while
\* the run's budget of rejections lasts, and every call once it has no link
\* left to hand out
IssuerStep(p) ==
  \E ok \in BOOLEAN :
    /\ Quiet
    /\ ok \/ failures < MaxFailures \/ nextLink > MaxLinks
    /\ WorkerMint(p, ok)

\* the dispatcher hands over a pending task
DispatchStep == \E p \in Procs, task \in BagToSet(queue) : Quiet /\ Deliver(p, task)

\* creation requests and repeated worker calls from outside
RequestStep ==
  \/ \E p \in Procs, userId \in Users, tgUser \in TgUsers \cup {Null},
        reqTid \in TxnIds \cup BlankIds :
       Quiet /\ CreateSet(p, userId, tgUser, reqTid)
  \/ \E p \in Procs, t \in AllIds \cup {Null} : Quiet /\ Redeliver(p, t)

NextLive ==
  \/ \E p \in Procs : HandlerStep(p)
  \/ \E p \in Procs : IssuerStep(p)
  \/ DispatchStep
  \/ RequestStep

\* Every store, dispatcher, issuer and notifier call returns, so a handler
\* that awaits one goes on; the dispatcher delivers every pending task.
\* Requests from outside may stop at any time.
Fairness ==
  /\ \A p \in Procs : WF_vars(HandlerStep(p))
  /\ \A p \in Procs : WF_vars(IssuerStep(p))
  /\ WF_vars(DispatchStep)

SpecLive == InitLive /\ [][NextLive]_vars /\ Fairness

(* --------------- the queued deployment with failing calls -------------- *)

\* the HTTP status of a response: res.sendStatus(n) and res.status(500) set
\* it, res.send(text) and res.json(obj) answer 200
HttpStatus(body) == IF body \in {"400", "401", "500"} THEN body ELSE "200"

\* positions of the worker at which it awaits a store or dispatcher call
StoreCalls ==
  {"get", "mark_failed", "mark_processing", "revert", "enqueue", "write_inv",
   "write_done"}

\* The awaited store or dispatcher call of worker invocation p rejects; the
\* error reaches the handler's outer catch: trace(...); res.send("ok")
WorkerFatal(p) ==
  /\ h[p].kind = "worker" /\ h[p].pc \in StoreCalls
  /\ Respond(p, "worker", "fatal", "ok")
  /\ UNCHANGED <<config, store, queue, nextLink, nextGen, counters, history>>

\* The invocation ends.  The dispatcher deletes a task whose call was
\* answered 2xx and keeps it for another delivery otherwise.
Ack(p) ==
  /\ h[p].pc = "sent"
  /\ h' = [h EXCEPT ![p] = Idle]
  /\ queue' = IF h[p].kind = "worker" /\ HttpStatus(h[p].body) # "200"
                THEN queue (+) SetToBag({[tid |-> h[p].tid, delay |-> 0]})
                ELSE queue
  /\ UNCHANGED <<config, store, nextLink, nextGen, counters, history>>

NextFaulty ==
  \/ \E p \in Procs : Ack(p)
  \/ \E p \in Procs : AwaitStep(p)
  \/ \E p \in Procs : Quiet /\ WorkerFatal(p)
  \/ \E p \in Procs : IssuerStep(p)
  \/ DispatchStep
  \/ RequestStep

SpecFaulty == InitLive /\ [][NextFaulty]_vars

(* ------------------------------- claims -------------------------------- *)

\* C1 (idempotent creation): a transaction identifier sent to the creation
\* endpoint two or more times is minted an invite link at most once.
C1_IdempotentCreation ==
  \A t \in AllIds : created[t] >= 2 => minted[t] <= 1

\* C2 (at-most-once mint): for a transaction of the queued deployment that
\* was created once, at most one issuer call returns a link and at most one
\* terminal-success write happens, however often the worker is invoked.
C2_AtMostOnceMint ==
  \A t \in AllIds :
    (variant = "queued" /\ created[t] <= 1) =>
      (minted[t] <= 1 /\ doneWrites[t] <= 1)

\* C3 (at-most-once join notification): for an invite link with a correlation
\* record, whose transaction was created once, at most one "joined"
\* notification is fired and joined is flipped from false to true at most once.
C3_AtMostOnceJoinNotification ==
  \A l \in Links :
    LET c == inv[Sha256(l)]
    IN (c.exists /\ created[c.transactionId] <= 1) =>
         (joinNotifs[l] <= 1 /\ flips[c.transactionId] <= 1)

\* C4 (no-op on duplicate creation): a creation request accepted for an
\* identifier that already has a record leaves the record as it is and
\* calls the issuer zero times.
C4_DuplicateCreationIsNoOp ==
  [][\A t \in AllIds :
       (txn[t].exists /\ created'[t] # created[t]) =>
         (txn'[t] = txn[t] /\ mintCalls'[t] = mintCalls[t])]_vars

\* C5 (backoff monotonicity): for a transaction created once, every retry
\* delay the worker schedules is at least the delay it scheduled before for
\* that transaction and at most the cap, under every interleaving.
C5_BackoffMonotone ==
  [][\A t \in AllIds :
       created[t] <= 1 =>
         (lastDelay'[t] >= lastDelay[t] /\ lastDelay'[t] <= BackoffCap)]_vars

\* C6 (attempt ceiling): once a transaction is FAILED it stays FAILED, the
\* issuer is not called for it again and no task for it is enqueued again.
C6_AttemptCeiling ==
  [][\A t \in AllIds :
       txn[t].status = "FAILED" =>
         /\ txn'[t].status = "FAILED"
         /\ mintCalls'[t] = mintCalls[t]
         /\ \A task \in BagToSet(queue') :
              task.tid = t => CopiesIn(task, queue') <= CopiesIn(task, queue)]_vars

\* C7 (already-done short circuit): the worker step that reads a DONE
\* transaction, or finds no record, answers "ok" at once and changes neither
\* collection, the queue, the issuer calls nor the notifications.
C7_ShortCircuit ==
  [][\A p \in Procs :
       (h[p].kind = "worker" /\ h[p].pc = "get" /\ h'[p] # h[p]) =>
         LET txnData == txn[h[p].tid]
         IN (~txnData.exists \/ txnData.status = "DONE") =>
              /\ h'[p].pc = "sent"
              /\ h'[p].body = "ok"
              /\ h'[p].outcome = IF txnData.exists THEN "already_done"
                                                   ELSE "not_found"
              /\ UNCHANGED <<store, queue, nextLink, history>>]_vars

\* a worker invocation has just answered already_done for a transaction
\* that was minted a link
C7_Witness ==
  \E p \in Procs :
    /\ h[p].kind = "worker" /\ h[p].pc = "sent"
    /\ h[p].outcome = "already_done"
    /\ txn[h[p].tid].status = "DONE"
    /\ mintCalls[h[p].tid] >= 1

\* C8 (correlation invariant): every DONE transaction (every stored one in
\* the synchronous deployment) holds an invite link s and the fingerprint of
\* s, the correlation record at fingerprint(s) points back to it with the
\* same link, and a join handler that looked s up works on that transaction.
C8_Correlation ==
  /\ \A t \in AllIds :
       (txn[t].exists /\ (variant = "sync" \/ txn[t].status = "DONE")) =>
         LET s == txn[t].inviteLink
         IN /\ s \in Links
            /\ txn[t].inviteHash = Sha256(s)
            /\ inv[Sha256(s)].exists
            /\ inv[Sha256(s)].transactionId = t
            /\ inv[Sha256(s)].inviteLink = s
            /\ \A p \in Procs :
                 (/\ h[p].kind = "webhook"
                  /\ h[p].pc \in {"tx_run", "tx_commit", "notify"}
                  /\ h[p].link = s) => h[p].tid = t
  /\ \A k \in Hashes : inv[k].exists => k = Sha256(inv[k].inviteLink)

\* a join handler has looked up the link of a DONE transaction
C8_Witness ==
  \E p \in Procs, t \in AllIds :
    /\ txn[t].status = "DONE"
    /\ h[p].kind = "webhook" /\ h[p].pc = "tx_run"
    /\ h[p].link = txn[t].inviteLink

\* C9 (notification failure never reverts state): the step in which the
\* notifier returns false changes neither collection nor the queue and ends
\* in the handler's success answer; the invocation then ends without a
\* second notification attempt or any other effect.
C9_NotificationFailureIsSwallowed ==
  [][\A p \in Procs :
       /\ (h[p].pc = "notify" /\ h'[p] # h[p] /\ h'[p].delivered = "false") =>
            /\ UNCHANGED <<store, queue, mintCalls>>
            /\ h'[p].pc = "sent"
            /\ h'[p].body \in {"ok", "200"}
       /\ (h[p].pc = "sent" /\ h[p].delivered = "false" /\ h'[p] # h[p]) =>
            /\ h'[p] = Idle
            /\ UNCHANGED <<store, queue, history>>]_vars

\* the worker has answered after a lost "link created" notification and the
\* transaction is DONE with its link and fingerprint
C9_Witness ==
  \E p \in Procs :
    /\ h[p].kind = "worker" /\ h[p].pc = "sent"
    /\ h[p].delivered = "false"
    /\ txn[h[p].tid].status = "DONE"
    /\ txn[h[p].tid].inviteHash = Sha256(txn[h[p].tid].inviteLink)

\* the events the join endpoint is said to ignore
NotAJoin(e) ==
  \/ FIRE_JOIN_EVENT # "true"
  \/ ~e.hasCm
  \/ e.link = NoLink
  \/ e.user = Null
  \/ e.status \notin {"member", "administrator", "creator"}

\* C10 (non-join callbacks change nothing): an event the endpoint is said to
\* ignore is answered "ignored", a join event whose link has no correlation
\* record is answered "not_found", and in both cases neither collection
\* changes and no notification is fired.
C10_NonJoinCallbacks ==
  [][\A p \in Procs, e \in Events :
       (/\ joinEvents' # joinEvents
        /\ h[p].pc = "idle"
        /\ h'[p].pc # "idle"
        /\ WebhookIgnore(p, e) \/ WebhookGet(p, e)) =>
         /\ NotAJoin(e) =>
              (h'[p].outcome = "ignored" /\ h'[p].body = "ignored")
         /\ (~NotAJoin(e) /\ ~inv[Sha256(e.link)].exists) =>
              (h'[p].outcome = "not_found" /\ h'[p].body = "not_found")
         /\ h'[p].outcome \in {"ignored", "not_found"} =>
              (h'[p].pc = "sent" /\ UNCHANGED <<store, queue, history>>)]_vars

\* with join tracking on and an invite issued, an event has been ignored
C10_Witness ==
  \E p \in Procs :
    /\ h[p].kind = "webhook" /\ h[p].pc = "sent"
    /\ h[p].outcome = "ignored"
    /\ FIRE_JOIN_EVENT = "true"
    /\ \E k \in Hashes : inv[k].exists

\* C11 (creation response carries the identifier): the JSON object of every
\* successful creation response holds, under transactionId, the identifier
\* the record was written under, and in the synchronous deployment the
\* invite link as well.
C11_ResponseCarriesIdentifier ==
  \A p \in Procs :
    (/\ h[p].kind = "create" /\ h[p].pc = "sent"
     /\ h[p].outcome \in {"queued", "created"}) =>
      /\ h[p].json.ok
      /\ h[p].json.transactionId = h[p].tid
      /\ variant = "sync" => h[p].json.inviteLink = h[p].link

\* the status changes the lifecycle allows
Edges ==
  {<<"QUEUED", "PROCESSING">>, <<"PROCESSING", "DONE">>,
   <<"PROCESSING", "QUEUED">>, <<"PROCESSING", "FAILED">>}

\* C12 (lifecycle transitions): in the queued deployment a record comes into
\* being as QUEUED with attempts 0 and joined false, and every later change
\* of its status is one of QUEUED -> PROCESSING, PROCESSING -> DONE,
\* PROCESSING -> QUEUED, PROCESSING -> FAILED; so DONE and FAILED are final.
C12_Lifecycle ==
  [][variant = "queued" =>
       \A t \in AllIds :
         /\ (~txn[t].exists /\ txn'[t].exists) =>
              /\ txn'[t].status = "QUEUED"
              /\ txn'[t].attempts = 0
              /\ ~txn'[t].joined
         /\ (txn[t].exists /\ txn'[t].status # txn[t].status) =>
              <<txn[t].status, txn'[t].status>> \in Edges]_vars

\* invocation p has written PROCESSING for t and not yet written the result
\* of its attempt
InFlight(p, t) ==
  /\ h[p].kind = "worker"
  /\ h[p].tid = t
  /\ h[p].pc \in {"mint", "write_inv", "write_done", "revert"}

\* C13 (single in-flight attempt): for a transaction created once, no two
\* worker invocations are at the same time past the PROCESSING write and
\* before the write of their attempt's result.
C13_SingleInFlight ==
  \A t \in AllIds :
    created[t] <= 1 =>
      \A p, q \in Procs : (InFlight(p, t) /\ InFlight(q, t)) => p = q

\* C14 (joined only after issued): in the queued deployment joined, once
\* true, stays true, and a transaction whose invite link has been sent out
\* has joined flipped to true only while its status is DONE.
C14_JoinedOnlyAfterIssued ==
  [][variant = "queued" =>
       \A t \in AllIds :
         /\ txn[t].joined => txn'[t].joined
         /\ (~txn[t].joined /\ txn'[t].joined /\ linkNotifs[t] >= 1) =>
              txn'[t].status = "DONE"]_vars

\* C15 (one-to-one correlation): no two correlation records point back to
\* the same transaction.
C15_OneCorrelationPerTransaction ==
  \A k1, k2 \in Hashes :
    (/\ inv[k1].exists
     /\ inv[k2].exists
     /\ inv[k1].transactionId = inv[k2].transactionId) => k1 = k2

\* invocation p is a worker at position pc and takes a step
WorkerStep(p, pc) ==
  h[p].kind = "worker" /\ h[p].pc = pc /\ h'[p] # h[p]

\* C16 (retry on issuer failure): a worker invocation whose issuer call
\* fails has an attempt number of at most MAX_RETRY; it sets the status to
\* QUEUED with lastError recorded and the invite fields untouched, enqueues
\* exactly one task for its transaction with the backoff delay of its
\* attempt number and answers "retry_scheduled"; it writes no correlation
\* record and fires no notification.
C16_RetryOnIssuerFailure ==
  [][\A p \in Procs :
       LET t == h[p].tid
       IN /\ (WorkerStep(p, "mint") /\ mintCalls'[t] # mintCalls[t]
                /\ minted'[t] = minted[t]) =>
               /\ h[p].attempts <= MAX_RETRY
               /\ h'[p].pc = "revert"
               /\ h'[p].delay = Backoff(h[p].attempts)
               /\ UNCHANGED <<store, queue, linkNotifs, joinNotifs>>
          /\ WorkerStep(p, "revert") =>
               /\ h'[p].pc = "enqueue"
               /\ txn' = [txn EXCEPT ![t].status = "QUEUED",
                                     ![t].lastError = "issuer error"]
               /\ UNCHANGED <<inv, queue, linkNotifs, joinNotifs, mintCalls>>
          /\ WorkerStep(p, "enqueue") =>
               /\ h'[p].pc = "sent"
               /\ h'[p].outcome = "retry_scheduled"
               /\ h'[p].body = "retry_scheduled"
               /\ queue' = queue (+) SetToBag({[tid |-> t,
                                               delay |-> Backoff(h[p].attempts)]})
               /\ UNCHANGED <<store, linkNotifs, joinNotifs, mintCalls>>]_vars

\* a worker has answered retry_scheduled, its retry task is in the queue
\* and the record is QUEUED with the error recorded and no invite link
C16_Witness ==
  \E p \in Procs :
    /\ h[p].kind = "worker" /\ h[p].pc = "sent"
    /\ h[p].outcome = "retry_scheduled"
    /\ BagIn([tid |-> h[p].tid, delay |-> Backoff(h[p].attempts)], queue)
    /\ txn[h[p].tid].status = "QUEUED"
    /\ txn[h[p].tid].lastError = "issuer error"
    /\ txn[h[p].tid].inviteLink = NoLink

\* C17 (eventual termination): in the queued deployment, when every call
\* returns and every pending task is delivered, a transaction that is QUEUED
\* or PROCESSING reaches DONE or FAILED, whatever the issuer answers.
C17_EventualTermination ==
  \A t \in AllIds :
    (txn[t].status \in {"QUEUED", "PROCESSING"})
      ~> (txn[t].status \in {"DONE", "FAILED"})

\* a transaction has gone through every retry and ended FAILED
C17_Witness ==
  \E t \in AllIds :
    /\ txn[t].status = "FAILED"
    /\ mintCalls[t] >= MAX_RETRY
    /\ \A p \in Procs : h[p].pc = "idle"

\* something is still going to work on transaction t: a worker invocation
\* for it is running, a task for it is pending, or its creation request has
\* not enqueued the task yet
Attended(t) ==
  \/ \E p \in Procs : h[p].kind \in {"worker", "create"} /\ h[p].tid = t
  \/ \E task \in BagToSet(queue) : task.tid = t

\* C18 (no stranded transaction): also when store and dispatcher calls of
\* the worker fail, a transaction that is QUEUED or PROCESSING has a worker
\* invocation running, a task pending, or a redelivery to come.
C18_NoStrandedTransaction ==
  \A t \in AllIds :
    txn[t].status \in {"QUEUED", "PROCESSING"} => Attended(t)


\* C19 (recipient backfill): the commit that flips joined for a join event
\* of user u writes, to the transaction and to the correlation record that
\* resolved it, the identifier stored at creation if there is one and u
\* otherwise; the "joined" notification carries the identifier its
\* invocation resolved; and a joined transaction agrees with a correlation
\* record of its own on the recipient identifier.
C19_RecipientBackfill ==
  /\ [][\A p \in Procs :
          h[p].kind = "webhook" =>
            LET t == h[p].tid
                resolved == OrElse(txn[t].telegramUserId, h[p].tg)
            IN /\ (h[p].pc = "tx_commit" /\ h'[p].pc = "notify"
                     /\ ~txn[t].joined /\ txn'[t].joined) =>
                    /\ txn'[t].telegramUserId = resolved
                    /\ inv'[Sha256(h[p].link)].telegramUserId = resolved
                    /\ inv'[Sha256(h[p].link)].transactionId = t
                    /\ h'[p].final = resolved
               /\ (h[p].pc = "notify" /\ h'[p].pc = "sent") =>
                    h'[p].sentTelegramUserId = String(h[p].final)]_vars
  /\ [](\A t \in AllIds :
          txn[t].joined =>
            \E k \in Hashes :
              /\ inv[k].exists
              /\ inv[k].transactionId = t
              /\ inv[k].telegramUserId = txn[t].telegramUserId)

\* a join by g2 on a transaction created without a recipient has been
\* committed and notified: transaction, correlation record and notification
\* all carry g2
C19_Witness ==
  \E p \in Procs :
    /\ h[p].kind = "webhook" /\ h[p].pc = "sent" /\ h[p].outcome = "joined"
    /\ h[p].sentTelegramUserId = "g2"
    /\ flips[h[p].tid] = 1
    /\ txn[h[p].tid].joined
    /\ txn[h[p].tid].telegramUserId = "g2"
    /\ inv[Sha256(h[p].link)].telegramUserId = "g2"


\* C20 (bounded attempts): the stored attempts counter never exceeds
\* MAX_RETRY, the worker writes PROCESSING only with an attempt number of at
\* most MAX_RETRY, and the issuer is called at most MAX_RETRY times for one
\* transaction, whatever is redelivered, overlapped or created again.
C20_BoundedAttempts ==
  /\ \A t \in AllIds : txn[t].attempts <= MAX_RETRY
  /\ \A p \in Procs :
       (h[p].kind = "worker" /\ h[p].pc = "mark_processing") =>
         h[p].attempts <= MAX_RETRY
  /\ \A t \in AllIds : mintCalls[t] <= MAX_RETRY

====
